---- MODULE Spec2Model ----
(***************************************************************************)
(* Model of streamlit-toc (src/app.py): the Page record, the ToC registry  *)
(* (filter by viewer, stable sort by index, projection, lookup by title,   *)
(* load/dispatch), display_toc and the render pass of main().              *)
(***************************************************************************)
EXTENDS Integers, Sequences, FiniteSets, TLC

\* ------------------------------------------------------------------ bounds
MaxPages == 2
MaxIndex == 1

\* ------------------------------------------------------------ value domains
\* Python's None, as the value of st.session_state.get('username') when the
\* key is absent.
None == "<None>"
\* The demo's text_input default (line 264) and whitelisted name (line 253).
Usernames == {"user", "admin"}
Viewers == Usernames \cup {None}
Titles == {"Page 1", "Secret page"}
Uids == <<"page1", "page2", "page3", "page4">>
Icons == <<"person-square", "hand-index-thumb", "arrow-up-circle", "star">>
\* contents: a callable, a module (assumed to define load(), lines 71-72),
\* or any other object (the dataclass does not enforce the annotation).
Callable == "callable"
ModuleType == "module"
OtherObject == "object"
ContentKinds == {Callable, ModuleType, OtherObject}
Indexes == 0..MaxIndex

\* Optional[list]: None, or a list of usernames.
NoList == [is_none |-> TRUE, items |-> <<>>]
List(s) == [is_none |-> FALSE, items |-> s]
\* None, [], and a whitelist naming the demo's admin second.
ShowToValues == {NoList, List(<<>>), List(<<"root", "admin">>)}

Page(uid, title, icon, contents, index, show_to) ==
    [uid |-> uid, title |-> title, icon |-> icon, contents |-> contents,
     index |-> index, show_to |-> show_to]

\* ------------------------------------------------------------- ToC.__init__
\* Python's `x in list`.
In(x, list) == \E i \in 1..Len(list) : list[i] = x

\* Variant: only the first whitelist entry is compared.
Visible_FirstOnly(x, username) ==
    x.show_to.is_none \/ (x.show_to.items # <<>> /\ x.show_to.items[1] = username)

\* Variant: a truthiness test, `not x.show_to or username in x.show_to`.
Visible_Truthy(x, username) ==
    x.show_to.is_none \/ x.show_to.items = <<>> \/ In(username, x.show_to.items)

\* lambda x: x.show_to is None or st.session_state.get('username') in x.show_to
Visible(x, username) == x.show_to.is_none \/ In(username, x.show_to.items)

RECURSIVE filter(_, _)
filter(seq, username) ==
    IF seq = <<>> THEN <<>>
    ELSE IF Visible(Head(seq), username)
         THEN <<Head(seq)>> \o filter(Tail(seq), username)
         ELSE filter(Tail(seq), username)

\* Variant: x goes before elements of equal key (ties come out reversed).
RECURSIVE InsertByIndex_Strict(_, _)
InsertByIndex_Strict(x, seq) ==
    IF seq = <<>> THEN <<x>>
    ELSE IF Head(seq).index < x.index
         THEN <<Head(seq)>> \o InsertByIndex_Strict(x, Tail(seq))
         ELSE <<x>> \o seq

\* Insert x after every element whose key is <= x's key (stable).
RECURSIVE InsertByIndex(_, _)
InsertByIndex(x, seq) ==
    IF seq = <<>> THEN <<x>>
    ELSE IF Head(seq).index <= x.index
         THEN <<Head(seq)>> \o InsertByIndex(x, Tail(seq))
         ELSE <<x>> \o seq

\* sorted(..., key=lambda x: x.index): ascending and stable.
RECURSIVE sorted(_)
sorted(seq) ==
    IF seq = <<>> THEN <<>>
    ELSE InsertByIndex(seq[Len(seq)], sorted(SubSeq(seq, 1, Len(seq) - 1)))

\* Variant: the filter is left out.
ToCInit_NoFilter(input, username) == sorted(input)

ToCInit(input, username) == sorted(filter(input, username))

\* Variant: the attribute list comes out in reverse page order.
get_pages_reversed(ps, by) == [i \in 1..Len(ps) |-> ps[Len(ps) + 1 - i][by]]

\* ------------------------------------------------------------ ToC.get_pages
get_pages(ps, by) == [i \in 1..Len(ps) |-> ps[i][by]]

\* Variant: the last position holding value.
ListIndex_Last(list, value) ==
    IF In(value, list)
    THEN CHOOSE i \in 1..Len(list) :
            list[i] = value /\ \A j \in (i + 1)..Len(list) : list[j] # value
    ELSE 0

\* list.index(value): the first position holding value, 0 for ValueError.
ListIndex(list, value) ==
    IF In(value, list)
    THEN CHOOSE i \in 1..Len(list) :
            list[i] = value /\ \A j \in 1..(i - 1) : list[j] # value
    ELSE 0

\* ---------------------------------------------------- ToC._get_page_by_title
NoError == "<ok>"
ValueError == "ValueError"
ContentError == "ContentError"

\* self.pages[self.get_pages(by='title').index(title)]
\* value is <<page>> on success and <<>> when index() raised ValueError.
_get_page_by_title(ps, title) ==
    LET i == ListIndex(get_pages(ps, "title"), title)
    IN  IF i = 0
        THEN [raised |-> ValueError, value |-> <<>>]
        ELSE [raised |-> NoError, value |-> <<ps[i]>>]

\* ------------------------------------------------------------ ToC.load_page
Event(ev, arg) == [ev |-> ev, arg |-> arg]

\* Variant: the module branch is missing.
Dispatch_CallableOnly(page, content_raises) ==
    IF page.contents = Callable
    THEN [events |-> <<Event("contents()", page.uid)>>,
          raised |-> IF content_raises THEN ContentError ELSE NoError]
    ELSE [events |-> <<>>, raised |-> NoError]

\* Variant: the content's error is caught and dropped.
Dispatch_Suppress(page, content_raises) ==
    IF page.contents = Callable
    THEN [events |-> <<Event("contents()", page.uid)>>, raised |-> NoError]
    ELSE IF page.contents = ModuleType
    THEN [events |-> <<Event("contents.load()", page.uid)>>, raised |-> NoError]
    ELSE [events |-> <<>>, raised |-> NoError]

\* Lines 68-73: the isinstance chain.  The invoked content may raise.
Dispatch(page, content_raises) ==
    IF page.contents = Callable
    THEN [events |-> <<Event("contents()", page.uid)>>,
          raised |-> IF content_raises THEN ContentError ELSE NoError]
    ELSE IF page.contents = ModuleType
    THEN [events |-> <<Event("contents.load()", page.uid)>>,
          raised |-> IF content_raises THEN ContentError ELSE NoError]
    ELSE [events |-> <<>>, raised |-> NoError]

\* Variant: the lookup comes first, the heading after it.
load_page_resolve_first(ps, title, show_title, content_raises) ==
    LET heading == IF show_title THEN <<Event("st.title", title)>> ELSE <<>>
        found   == _get_page_by_title(ps, title)
    IN  IF found.raised # NoError
        THEN [events |-> <<>>, raised |-> found.raised]
        ELSE LET d == Dispatch(found.value[1], content_raises)
             IN  [events |-> heading \o d.events, raised |-> d.raised]

\* Lines 65-73: st.title (if show_title), then the lookup, then the dispatch.
load_page(ps, title, show_title, content_raises) ==
    LET heading == IF show_title THEN <<Event("st.title", title)>> ELSE <<>>
        found   == _get_page_by_title(ps, title)
    IN  IF found.raised # NoError
        THEN [events |-> heading, raised |-> found.raised]
        ELSE LET d == Dispatch(found.value[1], content_raises)
             IN  [events |-> heading \o d.events, raised |-> d.raised]

\* -------------------------------------------------------------- display_toc
\* Variant: the orientation does not follow in_sidebar.
display_toc_vertical(ps, in_sidebar, menu_title, selection) ==
    LET call == [context |-> IF in_sidebar THEN "st.sidebar" ELSE "nullcontext",
                 menu_title |-> menu_title,
                 options |-> get_pages(ps, "title"),
                 orientation |-> "vertical",
                 icons |-> get_pages(ps, "icon"),
                 answer |-> selection]
    IN  [calls |-> <<call>>, page_title |-> call.answer]

\* One st_menu call inside `with context:`; selection is what the widget
\* (an external collaborator) answers.
display_toc(ps, in_sidebar, menu_title, selection) ==
    LET context     == IF in_sidebar THEN "st.sidebar" ELSE "nullcontext"
        orientation == IF in_sidebar THEN "vertical" ELSE "horizontal"
        call == [context |-> context, menu_title |-> menu_title,
                 options |-> get_pages(ps, "title"),
                 orientation |-> orientation,
                 icons |-> get_pages(ps, "icon"),
                 answer |-> selection]
    IN  [calls |-> <<call>>, page_title |-> call.answer]

\* ------------------------------------------------------------------- state
VARIABLES
    session,     \* st.session_state.get('username'); None while the key is absent
    declared,    \* the page list main() hands to ToC(...)
    pc,          \* position in main(): start, built, inputs, menu, done
    viewer,      \* the username read by ToC.__init__ in this pass
    pages,       \* ToC.pages
    page_title,  \* main's page_title, the value display_toc returned
    last         \* the most recent call on the ToC and what it did

vars == <<session, declared, pc, viewer, pages, page_title, last>>

NoCall == [op |-> "none"]

\* Page lists of at most MaxPages pages; uid and icon follow the position.
PageLists(titles, kinds, indexes, show_tos) ==
    UNION {
        { [i \in 1..n |-> Page(Uids[i], f[i].title, Icons[i], f[i].contents,
                               f[i].index, f[i].show_to)] :
          f \in [1..n -> [title : titles, contents : kinds,
                          index : indexes, show_to : show_tos]] } :
        n \in 0..MaxPages }

InitWith(lists) ==
    /\ declared \in lists
    /\ session = None
    /\ pc = "start"
    /\ viewer = None
    /\ pages = <<>>
    /\ page_title = None
    /\ last = NoCall

\* Registry inputs: every title, index and show_to; contents are functions,
\* as in main().
Init == InitWith(PageLists(Titles, {Callable}, Indexes, ShowToValues))

\* Dispatch inputs: every kind of contents; index 0, show_to None or a whitelist.
InitDispatch ==
    InitWith(PageLists(Titles, ContentKinds, {0}, {NoList, List(<<"root", "admin">>)}))

\* ----------------------------------------------------------------- actions
\* Line 239: toc = ToC([...]).
Construct ==
    /\ pc = "start"
    /\ viewer' = session
    /\ pages' = ToCInit(declared, session)
    /\ pc' = "built"
    /\ last' = [op |-> "ToC"]
    /\ UNCHANGED <<session, declared, page_title>>

\* A caller's toc.get_pages(by=...).
GetPages ==
    /\ pc = "built"
    /\ \E by \in {"title", "icon"} :
          last' = [op |-> "get_pages", by |-> by, value |-> get_pages(pages, by)]
    /\ UNCHANGED <<session, declared, pc, viewer, pages, page_title>>

\* A caller's toc._get_page_by_title(title).
GetPageByTitle ==
    /\ pc = "built"
    /\ \E title \in Titles :
          LET r == _get_page_by_title(pages, title)
          IN  last' = [op |-> "_get_page_by_title", title |-> title,
                       raised |-> r.raised, value |-> r.value]
    /\ UNCHANGED <<session, declared, pc, viewer, pages, page_title>>

\* Lines 263-270: the text_input keyed 'username' defaults to 'user'.
SidebarInputs ==
    /\ pc = "built"
    /\ session' = IF session = None THEN "user" ELSE session
    /\ pc' = "inputs"
    /\ UNCHANGED <<declared, viewer, pages, page_title, last>>

\* Line 271: page_title = display_toc(toc, in_sidebar=..., menu_title=...).
\* The widget may answer any title, also one kept from an earlier pass.
DisplayToc ==
    /\ pc = "inputs"
    /\ \E in_sidebar \in BOOLEAN, selection \in Titles :
          LET r == display_toc(pages, in_sidebar, "", selection)
          IN  /\ page_title' = r.page_title
              /\ last' = [op |-> "display_toc", in_sidebar |-> in_sidebar,
                          calls |-> r.calls, returned |-> r.page_title]
    /\ pc' = "menu"
    /\ UNCHANGED <<session, declared, viewer, pages>>

\* Line 272: toc.load_page(title=page_title, show_title=show_title).
LoadPage ==
    /\ pc \in {"menu", "done"}
    /\ \E show_title \in BOOLEAN, content_raises \in BOOLEAN :
          LET r == load_page(pages, page_title, show_title, content_raises)
          IN  last' = [op |-> "load_page", title |-> page_title,
                       show_title |-> show_title,
                       content_raises |-> content_raises,
                       events |-> r.events, raised |-> r.raised]
    /\ pc' = "done"
    /\ UNCHANGED <<session, declared, viewer, pages, page_title>>

\* The host re-executes main() after an interaction; the username field may
\* have been edited.  Page and ToC objects are rebuilt from scratch.
Rerun ==
    /\ pc = "done"
    /\ session' \in Usernames
    /\ pc' = "start"
    /\ viewer' = None
    /\ pages' = <<>>
    /\ page_title' = None
    /\ last' = NoCall
    /\ UNCHANGED declared

Next ==
    \/ Construct
    \/ GetPages
    \/ GetPageByTitle
    \/ SidebarInputs
    \/ DisplayToc
    \/ LoadPage
    \/ Rerun

Spec == Init /\ [][Next]_vars
SpecDispatch == InitDispatch /\ [][Next]_vars

\* ================================================================ properties
Built == pc # "start"
Range(seq) == {seq[i] : i \in 1..Len(seq)}
InPages(p) == \E j \in 1..Len(pages) : pages[j] = p
\* Position of a page of ToC.pages in the declared list (uids are distinct).
Pos(p) == CHOOSE i \in 1..Len(declared) : declared[i].uid = p.uid
IsContentEvent(e) == e.ev \in {"contents()", "contents.load()"}
ContentEvents(events) == {i \in 1..Len(events) : IsContentEvent(events[i])}
TitleEvents(events) == {i \in 1..Len(events) : events[i].ev = "st.title"}
HasTitle(title) == \E j \in 1..Len(pages) : pages[j].title = title
FirstWithTitle(title) ==
    CHOOSE j \in 1..Len(pages) :
        pages[j].title = title /\ \A k \in 1..(j - 1) : pages[k].title # title

\* C1: once the ToC is constructed, every declared page with show_to None is
\* in ToC.pages, and every declared page with a non-empty show_to is in
\* ToC.pages exactly when the viewer read at construction is one of its
\* entries.
C1_FilterByMembership ==
    Built =>
        \A i \in 1..Len(declared) :
            LET p == declared[i]
            IN  /\ p.show_to.is_none => InPages(p)
                /\ (~p.show_to.is_none /\ p.show_to.items # <<>>) =>
                       (InPages(p) <=> viewer \in Range(p.show_to.items))

\* A whitelisted viewer sees a restricted page next to an unrestricted one.
C1_Witness ==
    /\ pc = "built"
    /\ viewer = "admin"
    /\ \E i, j \in 1..Len(declared) :
          /\ declared[i].show_to.is_none
          /\ declared[j].show_to = List(<<"root", "admin">>)
          /\ InPages(declared[i]) /\ InPages(declared[j])

\* C2 (as stated): a page whose show_to is an empty list is kept by the
\* construction for every viewer.
C2_EmptyIsUnrestricted ==
    Built =>
        \A i \in 1..Len(declared) :
            declared[i].show_to = List(<<>>) => InPages(declared[i])

\* C2 (amended): a page whose show_to is an empty list is dropped by the
\* construction for every viewer; it never appears in ToC.pages.
C2_EmptyIsHidden ==
    Built =>
        \A i \in 1..Len(declared) :
            declared[i].show_to = List(<<>>) => ~InPages(declared[i])

\* A pass in which an empty-whitelist page was declared and another page kept.
C2_Witness ==
    /\ pc = "built"
    /\ pages # <<>>
    /\ \E i \in 1..Len(declared) : declared[i].show_to = List(<<>>)

\* C3: from the end of construction on, whatever calls follow, ToC.pages
\* holds exactly the declared pages the filter keeps for the viewer, each
\* once, in non-decreasing index order, pages of equal index in declared
\* order; [P0(index=0), P1(index=2), P2(index=1)] gives [P0, P2, P1].
C3_SortedVisible ==
    /\ Built =>
          /\ Range(pages) = {declared[i] : i \in {k \in 1..Len(declared) :
                                                    Visible(declared[k], viewer)}}
          /\ \A j, k \in 1..Len(pages) :
                j < k =>
                    /\ pages[j] # pages[k]
                    /\ pages[j].index <= pages[k].index
                    /\ pages[j].index = pages[k].index =>
                           Pos(pages[j]) < Pos(pages[k])
    /\ LET P0 == Page("page1", "Page 1", "person-square", Callable, 0, NoList)
           P1 == Page("page2", "Page 1", "hand-index-thumb", Callable, 2, NoList)
           P2 == Page("page3", "Page 1", "arrow-up-circle", Callable, 1, NoList)
       IN  ToCInit(<<P0, P1, P2>>, None) = <<P0, P2, P1>>

\* After a load_page call the ToC still holds two pages of equal index in
\* declared order.
C3_Witness ==
    /\ pc = "done"
    /\ last.op = "load_page"
    /\ Len(pages) = 2
    /\ pages[1].index = pages[2].index
    /\ pages = declared

\* C4: get_pages(by='title') and get_pages(by='icon') are as long as
\* ToC.pages and their i-th entries are the title and the icon of
\* ToC.pages[i]; display_toc hands the widget exactly these as options and
\* icons.
C4_ParallelProjections ==
    /\ (last.op = "get_pages") =>
          /\ Len(last.value) = Len(pages)
          /\ \A i \in 1..Len(pages) :
                last.value[i] = IF last.by = "title" THEN pages[i].title
                                ELSE pages[i].icon
    /\ (last.op = "display_toc") =>
          \A c \in Range(last.calls) :
              /\ Len(c.options) = Len(pages)
              /\ Len(c.icons) = Len(pages)
              /\ \A i \in 1..Len(pages) :
                    /\ c.options[i] = pages[i].title
                    /\ c.icons[i] = pages[i].icon

\* The menu was drawn for two pages that the sort had swapped.
C4_Witness ==
    /\ last.op = "display_toc"
    /\ Len(pages) = 2
    /\ pages[1].uid = "page2"
    /\ Len(last.calls) = 1

\* C5: _get_page_by_title answers the first page of ToC.pages with the given
\* title when there is one and raises ValueError when there is none; a
\* load_page for a title no page of ToC.pages has ends with that ValueError
\* and invokes no contents.
C5_LookupFirstOrNotFound ==
    /\ (last.op = "_get_page_by_title") =>
          IF HasTitle(last.title)
          THEN /\ last.raised = NoError
               /\ last.value = <<pages[FirstWithTitle(last.title)]>>
          ELSE /\ last.raised = ValueError
               /\ last.value = <<>>
    /\ (last.op = "load_page" /\ ~HasTitle(last.title)) =>
          /\ last.raised = ValueError
          /\ ContentEvents(last.events) = {}

\* A lookup of a title that two visible pages share.
C5_Witness ==
    /\ last.op = "_get_page_by_title"
    /\ Len(pages) = 2
    /\ pages[1].title = last.title
    /\ pages[2].title = last.title
    /\ last.value = <<pages[1]>>

\* C6 (as stated): load_page resolves the title before it emits the heading,
\* so a call that fails to resolve has emitted nothing.
C6_ResolveBeforeHeading ==
    (last.op = "load_page" /\ last.raised = ValueError) => last.events = <<>>

\* C6 (amended): load_page first emits the heading (only if show_title),
\* then resolves the title, then invokes the contents; a call that fails to
\* resolve has emitted exactly the heading when show_title is set and
\* nothing otherwise.
C6_HeadingBeforeResolve ==
    (last.op = "load_page") =>
        /\ TitleEvents(last.events) = IF last.show_title THEN {1} ELSE {}
        /\ last.show_title => last.events[1] = Event("st.title", last.title)
        /\ \A i \in ContentEvents(last.events) :
              \A h \in TitleEvents(last.events) : h < i
        /\ last.raised = ValueError =>
              /\ ~HasTitle(last.title)
              /\ last.events =
                     IF last.show_title
                     THEN <<Event("st.title", last.title)>> ELSE <<>>

\* A load_page with show_title set, for a title no visible page has.
C6_Witness ==
    /\ last.op = "load_page"
    /\ last.show_title
    /\ last.raised = ValueError
    /\ last.events = <<Event("st.title", last.title)>>

\* C7 (as stated): a load_page whose title resolves invokes exactly one entry
\* point once: the contents when it is callable, else the contents' load.
C7_AlwaysOneEntryPoint ==
    (last.op = "load_page" /\ HasTitle(last.title)) =>
        LET p == pages[FirstWithTitle(last.title)]
        IN  /\ Cardinality(ContentEvents(last.events)) = 1
            /\ \A i \in ContentEvents(last.events) :
                  last.events[i] =
                      IF p.contents = Callable
                      THEN Event("contents()", p.uid)
                      ELSE Event("contents.load()", p.uid)

\* C7 (amended): a load_page whose title resolves invokes the contents once
\* when it is callable, the contents' load once when it is a module and not
\* callable, and nothing when it is neither, in which case the call returns
\* normally; it invokes no entry point of any other page.
C7_EntryPointByKind ==
    (last.op = "load_page" /\ HasTitle(last.title)) =>
        LET p == pages[FirstWithTitle(last.title)]
            invoked == [i \in ContentEvents(last.events) |-> last.events[i]]
        IN  /\ p.contents = Callable =>
                  /\ Cardinality(DOMAIN invoked) = 1
                  /\ \A i \in DOMAIN invoked : invoked[i] = Event("contents()", p.uid)
            /\ p.contents = ModuleType =>
                  /\ Cardinality(DOMAIN invoked) = 1
                  /\ \A i \in DOMAIN invoked :
                        invoked[i] = Event("contents.load()", p.uid)
            /\ p.contents \notin {Callable, ModuleType} =>
                  /\ DOMAIN invoked = {}
                  /\ last.raised = NoError

\* A load_page that resolved to a page whose contents is a module.
C7_Witness ==
    /\ last.op = "load_page"
    /\ HasTitle(last.title)
    /\ pages[FirstWithTitle(last.title)].contents = ModuleType
    /\ \E i \in 1..Len(last.events) : last.events[i].ev = "contents.load()"

\* C8: when the entry point load_page invoked raised, load_page ends with
\* that error and the entry point was invoked once only.
C8_ContentErrorPropagates ==
    (/\ last.op = "load_page"
     /\ last.content_raises
     /\ ContentEvents(last.events) # {}) =>
        /\ last.raised = ContentError
        /\ Cardinality(ContentEvents(last.events)) = 1

\* A load_page whose module's load raised.
C8_Witness ==
    /\ last.op = "load_page"
    /\ last.content_raises
    /\ last.raised = ContentError
    /\ \E i \in 1..Len(last.events) : last.events[i].ev = "contents.load()"

\* C9: display_toc calls the widget once, in the sidebar with orientation
\* vertical when in_sidebar and in the main region with orientation
\* horizontal otherwise, and returns what the widget answered.
C9_ContainerOrientationCoupled ==
    (last.op = "display_toc") =>
        /\ Len(last.calls) = 1
        /\ LET c == last.calls[1]
           IN  /\ last.in_sidebar =>
                      c.context = "st.sidebar" /\ c.orientation = "vertical"
               /\ ~last.in_sidebar =>
                      c.context = "nullcontext" /\ c.orientation = "horizontal"
               /\ last.returned = c.answer
               /\ page_title = c.answer

\* A menu drawn in the main region.
C9_Witness ==
    /\ last.op = "display_toc"
    /\ ~last.in_sidebar
    /\ last.calls[1].orientation = "horizontal"
    /\ pages # <<>>

\* C10: in every pass, whatever username the host set and whatever title the
\* widget answered, load_page invokes contents only of pages the filter
\* keeps for the viewer read at this pass's construction, and a title that
\* only hidden pages carry ends in ValueError.
C10_NeverDispatchesHidden ==
    (last.op = "load_page") =>
        /\ \A i \in ContentEvents(last.events) :
              \E k \in 1..Len(declared) :
                  /\ declared[k].uid = last.events[i].arg
                  /\ declared[k].title = last.title
                  /\ Visible(declared[k], viewer)
        /\ (\A k \in 1..Len(declared) :
                declared[k].title = last.title => ~Visible(declared[k], viewer)) =>
              last.raised = ValueError

\* In a later pass, for viewer 'user', a hidden page declared first and a
\* visible page declared second share the title; the second was dispatched.
C10_Witness ==
    /\ last.op = "load_page"
    /\ viewer = "user"
    /\ Len(declared) = 2
    /\ declared[1].title = last.title
    /\ declared[2].title = last.title
    /\ ~declared[1].show_to.is_none
    /\ declared[2].show_to.is_none
    /\ last.events = <<Event("contents()", declared[2].uid)>>

====
